---- MODULE Spec2Model ----
(***************************************************************************)
(* Model of the RustyClippy chat core: the send_message command            *)
(* (commands.rs), provider selection (build_provider), the remote          *)
(* completion client with its SSE chunk decoder (llm/openai.rs) and the    *)
(* local generation worker bridged over a bounded channel (llm/local.rs).  *)
(*                                                                         *)
(* Text is modelled as a sequence of atoms (short strings standing for a   *)
(* run of characters); concatenation of text is \o.  Option values are     *)
(* sequences of length 0 (None) or 1 (Some).                               *)
(***************************************************************************)
EXTENDS Integers, Sequences, FiniteSets, TLC

VARIABLES
    history,      \* ConversationState.history: sequence of ChatMessage (ghost field `by`)
    pc,           \* position of each send_message call
    cfg,          \* Option<Config> loaded by the call (ghost once the provider is built)
    provider,     \* Option<provider> returned by build_provider
    msg,          \* the call's `message` argument
    messages,     \* the Vec<Message> handed to stream_completion
    acc,          \* full_response
    emitted,      \* events the call emitted through app.emit, in order
    result,       \* Option<Result<(), String>> the command returned
    requests,     \* ghost: HTTP POSTs sent on behalf of the call
    spawned,      \* ghost: blocking workers spawned on behalf of the call
    reqLog,       \* ghost: what the last POST met (status, body read)
    request,      \* Option: the POST the call built (URL, authorization, body)
    histAtStart,  \* ghost: history when the call was entered
    histAtEnd,    \* ghost: history when the call returned
    \* --- the remote fragment stream on its own (llm/openai.rs) ---
    sse,          \* ghost: the events the server sends, in order
    wire,         \* response text not yet delivered by the network
    rstate,       \* "open", "ended" (text exhausted) or "errored" (read error)
    items,        \* items the fragment stream has yielded, in order
    lastChunk,    \* Option: the chunk bytes_stream() delivered last
    lastYield,    \* Option: the item that chunk led to
    doneAt,       \* ghost: Option, Len(items) once a `data: [DONE]` line was scanned
    crossed,      \* ghost: some chunk held text of two different events
    \* --- one local call: worker, channel and consumer (llm/local.rs) ---
    wpc,          \* position of the worker thread
    nIter,        \* iterations of `for _ in 0..max_tokens` begun
    tok,          \* new_token of the current iteration ("" before the first)
    werr,         \* Option: the error run_inference returned
    handles,      \* native handles alive in the worker
    queue,        \* items in the mpsc channel, oldest first
    txAlive,      \* some Sender of the channel is alive
    rxAlive,      \* the Receiver (the stream) is alive
    rxDone,       \* the consumer has seen the end of the stream
    received,     \* items the consumer has taken, in order
    sampled,      \* ghost: tokens sampled so far, in order
    afterDrop,    \* ghost: whether the Receiver was dropped during the loop, and the
                  \* sample and decode calls made since it was dropped
    temperature,  \* the call's temperature argument, in hundredths
    world,        \* ghost: the model file and prompt, which fix the logits
    promptSize,   \* how the token count of the prompt compares with n_batch and n_ctx
    wmessages,    \* the `messages` argument of the local call
    prompt,       \* Option: the prompt format_chat_prompt returned
    sampler,      \* the sampler built ahead of the loop ("none" before)
    txLog,        \* ghost: items blocking_send has put into the channel, in order
    waited,       \* ghost: a blocking_send found the channel full and waited
    \* --- the streams of overlapping calls (commands.rs 138-158) ---
    stream,       \* Option: the stream stream_completion returned to the call
    tx,           \* Option: the stream the call's producer writes to
    chan,         \* items in flight on each stream, oldest first (ghost field `by`)
    produced,     \* ghost: items the call's producer has generated, in order
    taken         \* ghost: items stream.next() has handed to the call, in order

svars == <<stream, tx, chan, produced, taken>>

lvars == <<wpc, nIter, tok, werr, handles, queue, txAlive, rxAlive, rxDone,
           received, sampled, afterDrop, temperature, world, promptSize, wmessages,
           prompt, sampler, txLog, waited>>

\* what a local call is given and never writes
lgiven == <<temperature, world, promptSize, wmessages>>

rvars == <<sse, wire, rstate, items, lastChunk, lastYield, doneAt, crossed>>

ovars == <<history, pc, cfg, provider, msg, messages, acc, emitted, result,
           requests, spawned, reqLog, request, histAtStart, histAtEnd>>

-----------------------------------------------------------------------------
(* Bounds of the model *)

MaxItems == 2        \* Ok items one call consumes before its stream must end
MaxEvents == 2       \* SSE events in the response body of the remote stream model
MaxTokens == 3       \* stands for max_tokens = 512 (local.rs 145)
MaxMessages == 3     \* messages in a list given to format_chat_prompt
ChannelCap == 2      \* stands for the channel capacity 32 (local.rs 75)

\* send_message invocations, which may overlap
Calls == {1, 2}

-----------------------------------------------------------------------------
(* Text helpers *)

None == <<>>
Some(x) == <<x>>
IsSome(o) == Len(o) = 1
Unwrap(o) == o[1]

RECURSIVE Concat(_)
\* concatenation of a sequence of texts, in order
Concat(ss) == IF ss = <<>> THEN <<>> ELSE Head(ss) \o Concat(Tail(ss))

\* Result values
Ok(v)  == [ok |-> TRUE,  val |-> v]
Err(e) == [ok |-> FALSE, val |-> e]

\* does text t contain atom a
Carries(t, a) == \E i \in 1..Len(t) : t[i] = a

-----------------------------------------------------------------------------
(* llm/openai.rs: the SSE chunk decoder.                                   *)
(* Atoms of the response text: DATA is the prefix `data: `, DONE the       *)
(* sentinel `[DONE]`, LF a line feed, "{" "}" "," the JSON punctuation of  *)
(* a ChatCompletionChunk whose choices are listed between the braces, each *)
(* choice given by its delta.content: a string atom or "null".             *)

DATA == "data: "
DONE == "[DONE]"
LF   == "LF"

\* JSON string literals for delta.content and the text each one denotes
StrAtoms == {"a", "b", "e"}
ContentOf(s) == IF s = "e" THEN <<>> ELSE <<s>>

\* index of the first LF of t, 0 when there is none
FirstLF(t) == IF \E i \in 1..Len(t) : t[i] = LF
              THEN CHOOSE i \in 1..Len(t) : t[i] = LF /\ \A j \in 1..(i-1) : t[j] # LF
              ELSE 0

RECURSIVE Lines(_)
\* str::lines(): split at line feeds, a final line needs no terminator
Lines(t) ==
    IF t = <<>> THEN <<>>
    ELSE LET i == FirstLF(t) IN
         IF i = 0 THEN <<t>>
         ELSE <<SubSeq(t, 1, i-1)>> \o Lines(SubSeq(t, i+1, Len(t)))

\* serde_json::from_str::<ChatCompletionChunk>(data): Some(choices) on
\* success, each choice being its Option<content>; None on a parse error
ParseChunk(data) ==
    IF Len(data) < 2 \/ data[1] # "{" \/ data[Len(data)] # "}" THEN None
    ELSE LET inner == SubSeq(data, 2, Len(data)-1) IN
         IF inner = <<>> THEN Some(<<>>)
         ELSE IF /\ Len(inner) % 2 = 1
                 /\ \A i \in 1..Len(inner) :
                       IF i % 2 = 1 THEN inner[i] \in StrAtoms \cup {"null"}
                                    ELSE inner[i] = ","
              THEN Some([k \in 1..((Len(inner)+1) \div 2) |->
                            IF inner[2*k-1] = "null" THEN None
                            ELSE Some(ContentOf(inner[2*k-1]))])
              ELSE None

\* mutant: the content taken from the last choice instead of the first
LinePartLastChoice(line) ==
    IF line # <<>> /\ line[1] = DATA
    THEN LET parsed == ParseChunk(Tail(line)) IN
         IF IsSome(parsed) /\ Unwrap(parsed) # <<>>
                           /\ IsSome(Unwrap(parsed)[Len(Unwrap(parsed))])
         THEN Some(Unwrap(Unwrap(parsed)[Len(Unwrap(parsed))]))
         ELSE None
    ELSE None

\* body of one pass of `for line in text.lines()`: the content the line adds
\* to content_parts (None: nothing pushed)
LinePart(line) ==
    IF line # <<>> /\ line[1] = DATA
    THEN LET parsed == ParseChunk(Tail(line)) IN
         IF IsSome(parsed) /\ Unwrap(parsed) # <<>> /\ IsSome(Unwrap(parsed)[1])
         THEN Some(Unwrap(Unwrap(parsed)[1]))
         ELSE None
    ELSE None

\* does the loop `break` at this line
IsDoneLine(line) == line # <<>> /\ line[1] = DATA /\ Tail(line) = <<DONE>>

RECURSIVE ScanLinesStopOnBad(_, _)
\* mutant: a line that adds no content ends the loop as the sentinel does
ScanLinesStopOnBad(lines, parts) ==
    IF lines = <<>> THEN parts
    ELSE IF IsDoneLine(Head(lines)) THEN parts
    ELSE IF Head(lines) # <<>> /\ ~IsSome(LinePart(Head(lines))) THEN parts
    ELSE ScanLinesStopOnBad(Tail(lines),
                   IF IsSome(LinePart(Head(lines)))
                   THEN Append(parts, Unwrap(LinePart(Head(lines))))
                   ELSE parts)

RECURSIVE ScanLines(_, _)
\* the loop over the lines of one chunk, content_parts being `parts`
ScanLines(lines, parts) ==
    IF lines = <<>> THEN parts
    ELSE IF IsDoneLine(Head(lines)) THEN parts
    ELSE ScanLines(Tail(lines),
                   IF IsSome(LinePart(Head(lines)))
                   THEN Append(parts, Unwrap(LinePart(Head(lines))))
                   ELSE parts)

\* the and_then closure applied to the text of a chunk: Ok(None) or
\* Ok(Some(content_parts.join("")))
DecodeChunk(text) ==
    LET parts == ScanLines(Lines(text), <<>>) IN
    IF parts = <<>> THEN Ok(None) ELSE Ok(Some(Concat(parts)))

\* the closure mapped over bytes_stream(): a read error becomes
\* Err("Stream error: ..."), a chunk is decoded
MapChunk(chunk_result) ==
    IF chunk_result.ok THEN DecodeChunk(chunk_result.val)
    ELSE Err(<<"Stream error: ">> \o chunk_result.val)

\* the filter_map closure: Some(item) to yield, None to skip
FilterMap(r) ==
    IF r.ok THEN IF IsSome(r.val) THEN Some(Ok(Unwrap(r.val))) ELSE None
    ELSE Some(Err(r.val))

\* what one poll of the underlying body leads to
StreamItem(chunk_result) == FilterMap(MapChunk(chunk_result))

\* does the scan of this chunk reach a `data: [DONE]` line
HitsDone(text) == \E i \in 1..Len(Lines(text)) : IsDoneLine(Lines(text)[i])

-----------------------------------------------------------------------------
(* What a server may put on the wire: SSE events, each a line and a blank  *)
(* line.                                                                   *)

EventKinds == {"a", "b", "e", "null", "two", "done", "comment", "bad"}

Render(k) ==
    CASE k \in StrAtoms  -> <<DATA, "{", k, "}", LF, LF>>
      [] k = "null"      -> <<DATA, "{", "null", "}", LF, LF>>
      [] k = "two"       -> <<DATA, "{", "a", ",", "b", "}", LF, LF>>
      [] k = "done"      -> <<DATA, DONE, LF, LF>>
      [] k = "comment"   -> <<": ping", LF, LF>>
      [] k = "bad"       -> <<DATA, "{", "a", LF, LF>>

RECURSIVE RenderAll(_)
RenderAll(evs) == IF evs = <<>> THEN <<>> ELSE Render(Head(evs)) \o RenderAll(Tail(evs))

EventSeqs(n) == UNION {[1..k -> EventKinds] : k \in 0..n}

\* chunks the orchestrator model draws for a remote stream: one event each
OrchChunks == {Render(k) : k \in EventKinds}

-----------------------------------------------------------------------------
(* config.rs and commands.rs: configuration and provider selection *)

ProviderKinds == {"OpenAI", "LMStudio", "Ollama", "CustomAPI", "BuiltIn"}

\* the file system: which model paths name an existing file
FileExists(path) == path = "model.gguf"

\* temperatures a call may be given, in hundredths: 0.0, 0.01 and 0.9
Temperatures == {0, 1, 90}

\* values Config::load() may return
Configs ==
    [llm_provider       : ProviderKinds,
     temperature        : Temperatures,
     openai_api_key     : {None, Some("sk-1")},
     openai_model       : {"gpt-4"},
     custom_api_url     : {None, Some("http://host/v1")},
     custom_api_key     : {None, Some("ck-1")},
     custom_model       : {None, Some("m-1")},
     builtin_model_path : {None, Some("model.gguf"), Some("gone.gguf")}]

\* Option::unwrap_or_else / unwrap_or_default
UnwrapOr(o, d) == IF IsSome(o) THEN Unwrap(o) ELSE d

\* OpenAIProvider::new(key, model) followed by with_base_url
RemoteProvider(key, model, url) ==
    [type |-> "remote", api_key |-> key, model |-> model, base_url |-> url,
     model_path |-> ""]

\* mutant: the existence check of LocalLLMProvider::new left out
LocalProviderNewUnchecked(path) ==
    Ok([type |-> "local", api_key |-> "", model |-> "", base_url |-> "",
        model_path |-> path])

\* LocalLLMProvider::new: the path must name an existing file
LocalProviderNew(path) ==
    IF ~FileExists(path)
    THEN Err(<<"Model file not found: ", path>>)
    ELSE Ok([type |-> "local", api_key |-> "", model |-> "", base_url |-> "",
             model_path |-> path])

ErrNoKey  == <<"OpenAI API key not set. Please configure it in settings.">>
ErrNoUrl  == <<"Custom API URL is required.">>
ErrNoPath == <<"No local model path configured. Please download or select a model in settings.">>

\* mutant: the CustomAPI arm falls back to a default URL as the LMStudio
\* arm does, instead of rejecting a missing URL
build_provider_default_url(config) ==
    CASE config.llm_provider = "OpenAI" ->
           IF IsSome(config.openai_api_key)
           THEN Ok(RemoteProvider(Unwrap(config.openai_api_key), config.openai_model,
                                  "https://api.openai.com/v1"))
           ELSE Err(ErrNoKey)
      [] config.llm_provider = "LMStudio" ->
           Ok(RemoteProvider(UnwrapOr(config.custom_api_key, "lm-studio"),
                             UnwrapOr(config.custom_model, "default"),
                             UnwrapOr(config.custom_api_url, "http://localhost:1234/v1")))
      [] config.llm_provider = "Ollama" ->
           Ok(RemoteProvider("ollama",
                             UnwrapOr(config.custom_model, "llama3.2"),
                             UnwrapOr(config.custom_api_url, "http://localhost:11434/v1")))
      [] config.llm_provider = "CustomAPI" ->
           Ok(RemoteProvider(UnwrapOr(config.custom_api_key, ""),
                             UnwrapOr(config.custom_model, "default"),
                             UnwrapOr(config.custom_api_url, "http://localhost:1234/v1")))
      [] config.llm_provider = "BuiltIn" ->
           IF IsSome(config.builtin_model_path)
           THEN LET r == LocalProviderNew(Unwrap(config.builtin_model_path)) IN
                IF r.ok THEN r ELSE Err(<<"Failed to load local model: ">> \o r.val)
           ELSE Err(ErrNoPath)

build_provider(config) ==
    CASE config.llm_provider = "OpenAI" ->
           IF IsSome(config.openai_api_key)
           THEN Ok(RemoteProvider(Unwrap(config.openai_api_key), config.openai_model,
                                  "https://api.openai.com/v1"))
           ELSE Err(ErrNoKey)
      [] config.llm_provider = "LMStudio" ->
           Ok(RemoteProvider(UnwrapOr(config.custom_api_key, "lm-studio"),
                             UnwrapOr(config.custom_model, "default"),
                             UnwrapOr(config.custom_api_url, "http://localhost:1234/v1")))
      [] config.llm_provider = "Ollama" ->
           Ok(RemoteProvider("ollama",
                             UnwrapOr(config.custom_model, "llama3.2"),
                             UnwrapOr(config.custom_api_url, "http://localhost:11434/v1")))
      [] config.llm_provider = "CustomAPI" ->
           IF IsSome(config.custom_api_url)
           THEN Ok(RemoteProvider(UnwrapOr(config.custom_api_key, ""),
                                  UnwrapOr(config.custom_model, "default"),
                                  Unwrap(config.custom_api_url)))
           ELSE Err(ErrNoUrl)
      [] config.llm_provider = "BuiltIn" ->
           IF IsSome(config.builtin_model_path)
           THEN LET r == LocalProviderNew(Unwrap(config.builtin_model_path)) IN
                IF r.ok THEN r ELSE Err(<<"Failed to load local model: ">> \o r.val)
           ELSE Err(ErrNoPath)

-----------------------------------------------------------------------------
(* The local model's vocabulary (llama.cpp tokens as the worker sees them) *)

END_OF_TURN == "<end_of_turn>"
EOS_TAG     == "<eos>"

\* tokens the sampler may return
Tokens == {"tX", "tY", "tEmpty", "tBadUtf8", "tCont", "tEog", "tTurn", "tEos"}

\* model.is_eog_token
is_eog_token(t) == t = "tEog"

\* the bytes of a token's piece: "C3" and "A9" are the lead and the
\* continuation byte of one two-byte character, every other atom is a run of
\* whole characters
token_to_bytes(t) ==
    CASE t = "tX"       -> <<"x">>
      [] t = "tY"       -> <<"y">>
      [] t = "tEmpty"   -> <<>>
      [] t = "tBadUtf8" -> <<"C3">>
      [] t = "tCont"    -> <<"A9">>
      [] t = "tEog"     -> <<>>
      [] t = "tTurn"    -> <<END_OF_TURN>>
      [] t = "tEos"     -> <<"x", EOS_TAG>>

\* is b well-formed UTF-8: a lead byte is followed by its continuation byte
\* and a continuation byte follows its lead byte
ValidUtf8(b) ==
    \A i \in 1..Len(b) :
       /\ b[i] = "C3" => (i < Len(b) /\ b[i+1] = "A9")
       /\ b[i] = "A9" => (i > 1 /\ b[i-1] = "C3")

RECURSIVE DecodeUtf8(_)
\* the text of well-formed bytes: lead and continuation byte make one character
DecodeUtf8(b) ==
    IF b = <<>> THEN <<>>
    ELSE IF Head(b) = "C3" THEN <<"e-acute">> \o DecodeUtf8(SubSeq(b, 3, Len(b)))
    ELSE <<Head(b)>> \o DecodeUtf8(Tail(b))

\* String::from_utf8
from_utf8(b) == IF ValidUtf8(b) THEN Ok(DecodeUtf8(b)) ELSE Err(<<"FromUtf8Error">>)

\* model.token_to_str(t, Special::Tokenize): Err for a token whose bytes are
\* no valid UTF-8 on their own
token_to_str(t) == from_utf8(token_to_bytes(t))

\* .unwrap_or_default()
TokenStr(t) == IF token_to_str(t).ok THEN token_to_str(t).val ELSE <<>>

\* mutant: only the end-of-turn tag tested
HasStopTagTurnOnly(s) == Carries(s, END_OF_TURN)

\* token_str.contains("<end_of_turn>") || token_str.contains("<eos>")
HasStopTag(s) == Carries(s, END_OF_TURN) \/ Carries(s, EOS_TAG)

\* texts a local stream can carry in an Ok item (what line 168-169 sends)
SendableTexts ==
    {TokenStr(t) : t \in {u \in Tokens : /\ ~is_eog_token(u)
                                        /\ ~HasStopTag(TokenStr(u))
                                        /\ TokenStr(u) # <<>>}}

\* errors run_inference can return
InferenceErrors ==
    {<<"Failed to init backend: ", "e">>, <<"Failed to load model: ", "e">>,
     <<"Failed to create context: ", "e">>, <<"Failed to tokenize: ", "e">>,
     <<"Failed to add token to batch: ", "e">>, <<"Failed to decode prompt: ", "e">>,
     <<"Failed to add token: ", "e">>, <<"Failed to decode: ", "e">>}

-----------------------------------------------------------------------------
(* commands.rs: send_message *)

UserTexts == {<<"hello">>, <<"again">>}
SystemPrompt == <<"You are Clippy">>

Statuses == {"200 OK", "401 Unauthorized", "500 Internal Server Error"}
IsSuccess(status) == status = "200 OK"
Bodies == {<<"invalid key">>, <<>>}

ChatMessage(role, content, c) == [role |-> role, content |-> content, by |-> c]
Message(role, content) == [role |-> role, content |-> content]
Event(name, payload) == [name |-> name, payload |-> payload]

\* the call returns: `value` is the command's Result
Return(c, value) ==
    /\ result' = [result EXCEPT ![c] = Some(value)]
    /\ histAtEnd' = [histAtEnd EXCEPT ![c] = history']

\* lines 105-109: Config::load() and build_provider, both with `?`
Begin(c, m, loaded) ==
    /\ pc[c] = "idle"
    /\ UNCHANGED <<rvars, lvars, svars>>
    /\ msg' = [msg EXCEPT ![c] = m]
    /\ histAtStart' = [histAtStart EXCEPT ![c] = history]
    /\ UNCHANGED <<history, messages, acc, emitted, requests, spawned, reqLog, request>>
    /\ IF ~loaded.ok
       THEN /\ pc' = [pc EXCEPT ![c] = "failed"]
            /\ Return(c, Err(<<"Failed to load config: ">> \o loaded.val))
            /\ UNCHANGED <<cfg, provider>>
       ELSE /\ cfg' = [cfg EXCEPT ![c] = Some(loaded.val)]
            /\ LET built == build_provider(loaded.val) IN
               IF built.ok
               THEN /\ provider' = [provider EXCEPT ![c] = Some(built.val)]
                    /\ pc' = [pc EXCEPT ![c] = "built"]
                    /\ UNCHANGED <<result, histAtEnd>>
               ELSE /\ pc' = [pc EXCEPT ![c] = "failed"]
                    /\ Return(c, Err(built.val))
                    /\ UNCHANGED provider

\* lines 111-118: push the user message under the lock
PushUser(c) ==
    /\ pc[c] = "built"
    /\ UNCHANGED <<rvars, lvars, svars>>
    /\ history' = Append(history, ChatMessage("user", msg[c], c))
    /\ pc' = [pc EXCEPT ![c] = "pushed"]
    /\ UNCHANGED <<cfg, provider, msg, messages, acc, emitted, result, requests,
                   spawned, reqLog, request, histAtStart, histAtEnd>>

\* mutant: the history taken as it was when the call was entered
PrepareMessagesStale(c) ==
    /\ pc[c] = "pushed"
    /\ UNCHANGED <<rvars, lvars, svars>>
    /\ messages' = [messages EXCEPT ![c] =
          <<Message("system", SystemPrompt)>>
          \o [i \in 1..Len(histAtStart[c]) |->
                Message(histAtStart[c][i].role, histAtStart[c][i].content)]]
    /\ pc' = [pc EXCEPT ![c] = "prepared"]
    /\ UNCHANGED <<history, cfg, provider, msg, acc, emitted, result, requests,
                   spawned, reqLog, request, histAtStart, histAtEnd>>

\* lines 120-135: system prompt, then the history as read under the lock
PrepareMessages(c) ==
    /\ pc[c] = "pushed"
    /\ UNCHANGED <<rvars, lvars, svars>>
    /\ messages' = [messages EXCEPT ![c] =
          <<Message("system", SystemPrompt)>>
          \o [i \in 1..Len(history) |-> Message(history[i].role, history[i].content)]]
    /\ pc' = [pc EXCEPT ![c] = "prepared"]
    /\ UNCHANGED <<history, cfg, provider, msg, acc, emitted, result, requests,
                   spawned, reqLog, request, histAtStart, histAtEnd>>

\* mutant: the response body left out of the error
ApiErrorNoBody(status, body) == <<"OpenAI API error ", status>>

\* openai.rs 92-95: the error for a non-success status
ApiError(status, body) == <<"OpenAI API error ", status, ": ">> \o body

\* mutant: the system message left out of the request
ChatCompletionRequestNoSystem(p, msgs, temp) ==
    [model       |-> p.model,
     messages    |-> [i \in 1..(Len(msgs) - 1) |->
                        [role |-> msgs[i+1].role, content |-> msgs[i+1].content]],
     temperature |-> temp,
     stream      |-> TRUE]

\* openai.rs 68-81: the request body, one ChatMessage per Message
ChatCompletionRequest(p, msgs, temp) ==
    [model       |-> p.model,
     messages    |-> [i \in 1..Len(msgs) |->
                        [role |-> msgs[i].role, content |-> msgs[i].content]],
     temperature |-> temp,
     stream      |-> TRUE]

\* openai.rs 83-88: the POST with its URL and Authorization header
Post(p, msgs, temp) ==
    [url           |-> <<p.base_url, "/chat/completions">>,
     authorization |-> <<"Bearer ", p.api_key>>,
     body          |-> ChatCompletionRequest(p, msgs, temp)]

\* mutant: one stream kept by the provider and handed to every call
NewStreamShared(c) == 1

\* local.rs 75, openai.rs 98: every stream_completion call makes its own
\* channel (its own response body); streams are named after the call that
\* made them
NewStream(c) == c

\* the stream is returned to the call and its sending end given to the
\* producer (local.rs 78-85: `tx` moves into the worker, `rx` is returned)
OpenStream(c) ==
    /\ stream' = [stream EXCEPT ![c] = Some(NewStream(c))]
    /\ tx' = [tx EXCEPT ![c] = Some(NewStream(c))]
    /\ UNCHANGED <<chan, produced, taken>>

\* lines 138-141 with OpenAIProvider::stream_completion (openai.rs 83-96):
\* `sent` is the outcome of send().await, `status` the response status,
\* `text` the outcome of response.text().await
StreamCompletionRemote(c, sent, status, text) ==
    /\ pc[c] = "prepared"
    /\ UNCHANGED <<rvars, lvars>>
    /\ Unwrap(provider[c]).type = "remote"
    /\ requests' = [requests EXCEPT ![c] = @ + 1]
    /\ request' = [request EXCEPT ![c] =
          Some(Post(Unwrap(provider[c]), messages[c], Unwrap(cfg[c]).temperature))]
    /\ UNCHANGED <<history, cfg, provider, msg, messages, acc, emitted, spawned,
                   histAtStart>>
    /\ LET outcome ==
             IF ~sent.ok THEN Err(sent.val)
             ELSE IF ~IsSuccess(status)
                  THEN IF text.ok THEN Err(ApiError(status, text.val))
                                  ELSE Err(text.val)
                  ELSE Ok(<<>>)
       IN /\ reqLog' = [reqLog EXCEPT ![c] =
                 IF ~sent.ok THEN None
                 ELSE Some([status |-> status,
                            body |-> IF ~IsSuccess(status) /\ text.ok
                                     THEN Some(text.val) ELSE None])]
          /\ IF outcome.ok
             THEN /\ pc' = [pc EXCEPT ![c] = "streaming"]
                  /\ OpenStream(c)
                  /\ UNCHANGED <<result, histAtEnd>>
             ELSE /\ pc' = [pc EXCEPT ![c] = "failed"]
                  /\ UNCHANGED svars
                  /\ Return(c, Err(<<"Failed to get completion: ">> \o outcome.val))

\* lines 138-141 with LocalLLMProvider::stream_completion (local.rs 69-86):
\* a channel is made, the worker spawned and the receiver returned
StreamCompletionLocal(c) ==
    /\ pc[c] = "prepared"
    /\ UNCHANGED <<rvars, lvars>>
    /\ Unwrap(provider[c]).type = "local"
    /\ spawned' = [spawned EXCEPT ![c] = @ + 1]
    /\ OpenStream(c)
    /\ pc' = [pc EXCEPT ![c] = "streaming"]
    /\ UNCHANGED <<history, cfg, provider, msg, messages, acc, emitted, result,
                   requests, reqLog, request, histAtStart, histAtEnd>>

\* mutant: the accumulator overwritten instead of extended
PushStrReplace(s, token) == token

\* full_response.push_str(&token)
PushStr(s, token) == s \o token

\* tokens the call has consumed so far
TokensOf(c) == SelectSeq(emitted[c], LAMBDA e : e.name = "chat-token")

\* mutant: every fragment is pushed to the history as it arrives
OnItemPushesHistory(c, item) ==
    /\ pc[c] = "streaming"
    /\ UNCHANGED <<rvars, lvars>>
    /\ UNCHANGED <<cfg, provider, msg, messages, requests, spawned,
                   reqLog, request, histAtStart>>
    /\ IF item.ok
       THEN /\ Len(TokensOf(c)) < MaxItems
            /\ acc' = [acc EXCEPT ![c] = PushStr(@, item.val)]
            /\ emitted' = [emitted EXCEPT ![c] = Append(@, Event("chat-token", item.val))]
            /\ history' = Append(history, ChatMessage("assistant", item.val, c))
            /\ UNCHANGED <<pc, result, histAtEnd>>
       ELSE /\ emitted' = [emitted EXCEPT ![c] =
                   Append(@, Event("chat-error", <<"Stream error: ">> \o item.val))]
            /\ pc' = [pc EXCEPT ![c] = "failed"]
            /\ UNCHANGED history
            /\ Return(c, Err(<<"Stream error: ">> \o item.val))
            /\ UNCHANGED acc

\* mutant: the loop goes on after an Err item instead of returning
OnItemContinue(c, item) ==
    /\ pc[c] = "streaming"
    /\ UNCHANGED <<rvars, lvars>>
    /\ UNCHANGED <<history, cfg, provider, msg, messages, requests, spawned,
                   reqLog, request, histAtStart>>
    /\ IF item.ok
       THEN /\ Len(TokensOf(c)) < MaxItems
            /\ acc' = [acc EXCEPT ![c] = PushStr(@, item.val)]
            /\ emitted' = [emitted EXCEPT ![c] = Append(@, Event("chat-token", item.val))]
            /\ UNCHANGED <<pc, result, histAtEnd>>
       ELSE /\ emitted' = [emitted EXCEPT ![c] =
                   Append(@, Event("chat-error", <<"Stream error: ">> \o item.val))]
            /\ UNCHANGED <<pc, result, histAtEnd, acc>>

\* lines 145-157: one stream item
OnItem(c, item) ==
    /\ pc[c] = "streaming"
    /\ UNCHANGED <<rvars, lvars>>
    /\ UNCHANGED <<history, cfg, provider, msg, messages, requests, spawned,
                   reqLog, request, histAtStart>>
    /\ IF item.ok
       THEN /\ Len(TokensOf(c)) < MaxItems
            /\ acc' = [acc EXCEPT ![c] = PushStr(@, item.val)]
            /\ emitted' = [emitted EXCEPT ![c] = Append(@, Event("chat-token", item.val))]
            /\ UNCHANGED <<pc, result, histAtEnd>>
       ELSE /\ emitted' = [emitted EXCEPT ![c] =
                   Append(@, Event("chat-error", <<"Stream error: ">> \o item.val))]
            /\ pc' = [pc EXCEPT ![c] = "failed"]
            /\ Return(c, Err(<<"Stream error: ">> \o item.val))
            /\ UNCHANGED acc

\* stream.next() on the remote stream: a chunk that decodes to content is
\* an Ok item (chunks that decode to nothing are filtered out), a read
\* error is an Err item
NextRemote(c, chunks) ==
    /\ pc[c] = "streaming"
    /\ Unwrap(provider[c]).type = "remote"
    /\ \E chunk_result \in {Ok(ch) : ch \in chunks} \cup {Err(<<"connection reset">>)} :
          /\ IsSome(StreamItem(chunk_result))
          /\ OnItem(c, Unwrap(StreamItem(chunk_result)))
    /\ UNCHANGED svars

\* stream.next() on the local stream: whatever the worker sent
NextLocal(c, errors) ==
    /\ pc[c] = "streaming"
    /\ Unwrap(provider[c]).type = "local"
    /\ \/ \E text \in SendableTexts : OnItem(c, Ok(text))
       \/ \E e \in errors : OnItem(c, Err(e))
    /\ UNCHANGED svars

\* stream.next() returns None: the while loop ends
StreamEnd(c) ==
    /\ pc[c] = "streaming"
    /\ UNCHANGED <<rvars, lvars, svars>>
    /\ pc' = [pc EXCEPT ![c] = "ended"]
    /\ UNCHANGED <<history, cfg, provider, msg, messages, acc, emitted, result,
                   requests, spawned, reqLog, request, histAtStart, histAtEnd>>

\* mutant: the assistant message written over the last entry
PushAssistantOverwrite(c) ==
    /\ pc[c] = "ended"
    /\ UNCHANGED <<rvars, lvars, svars>>
    /\ history' = [history EXCEPT ![Len(history)] = ChatMessage("assistant", acc[c], c)]
    /\ pc' = [pc EXCEPT ![c] = "committed"]
    /\ UNCHANGED <<cfg, provider, msg, messages, acc, emitted, result, requests,
                   spawned, reqLog, request, histAtStart, histAtEnd>>

\* lines 160-167: push the assistant message under the lock
PushAssistant(c) ==
    /\ pc[c] = "ended"
    /\ UNCHANGED <<rvars, lvars, svars>>
    /\ history' = Append(history, ChatMessage("assistant", acc[c], c))
    /\ pc' = [pc EXCEPT ![c] = "committed"]
    /\ UNCHANGED <<cfg, provider, msg, messages, acc, emitted, result, requests,
                   spawned, reqLog, request, histAtStart, histAtEnd>>

\* lines 169-171: emit chat-done and return Ok(())
Finish(c) ==
    /\ pc[c] = "committed"
    /\ UNCHANGED <<rvars, lvars, svars>>
    /\ emitted' = [emitted EXCEPT ![c] = Append(@, Event("chat-done", <<>>))]
    /\ pc' = [pc EXCEPT ![c] = "done"]
    /\ UNCHANGED <<history, cfg, provider, msg, messages, acc, requests, spawned,
                   reqLog, request, histAtStart>>
    /\ Return(c, Ok(<<>>))

-----------------------------------------------------------------------------
(* The streams of overlapping calls: each call's producer (the blocking    *)
(* worker of local.rs 78-84, or the response body of the call's own POST,  *)
(* openai.rs 98-136) writes to the stream it was given, and the call's     *)
(* `while let Some(result) = stream.next().await` reads the stream that    *)
(* stream_completion returned to it.                                       *)

\* some call still reads stream s
HasReader(s) == \E c \in Calls : stream[c] = Some(s) /\ pc[c] = "streaming"

\* some producer still holds a sending end of stream s
HasWriter(s) == \E c \in Calls : tx[c] = Some(s)

\* the items a producer can generate: decoded chunks or a read error for a
\* remote provider, fragments or an inference error for a local one
ProducerItems(type, chunks, errors) ==
    IF type = "remote"
    THEN {Unwrap(StreamItem(r)) :
             r \in {q \in {Ok(ch) : ch \in chunks} \cup {Err(<<"connection reset">>)} :
                       IsSome(StreamItem(q))}}
    ELSE {Ok(text) : text \in SendableTexts} \cup {Err(e) : e \in errors}

\* the producer of call c puts one item on its stream (local.rs 81, 169:
\* blocking_send waits while the channel is full and fails once the
\* receiver is gone); an Err item is the producer's last
Produce(c, item, env) ==
    /\ IsSome(tx[c])
    /\ item \in ProducerItems(Unwrap(provider[c]).type, env.chunks, env.errors)
    /\ Len(produced[c]) < MaxItems
    /\ HasReader(Unwrap(tx[c]))
    /\ Unwrap(provider[c]).type = "local" => Len(chan[Unwrap(tx[c])]) < ChannelCap
    /\ chan' = [chan EXCEPT ![Unwrap(tx[c])] = Append(@, [by |-> c, item |-> item])]
    /\ produced' = [produced EXCEPT ![c] = Append(@, item)]
    /\ tx' = [tx EXCEPT ![c] = IF item.ok THEN @ ELSE None]
    /\ UNCHANGED <<stream, taken>>
    /\ UNCHANGED <<ovars, rvars, lvars>>

\* the producer of call c is done: the worker returns and drops `tx`
\* (local.rs 84), or the response body ends
CloseTx(c) ==
    /\ IsSome(tx[c])
    /\ tx' = [tx EXCEPT ![c] = None]
    /\ UNCHANGED <<stream, chan, produced, taken>>
    /\ UNCHANGED <<ovars, rvars, lvars>>

\* commands.rs 145: stream.next() hands call c the oldest item of the
\* stream the call holds
Consume(c) ==
    /\ pc[c] = "streaming"
    /\ IsSome(stream[c])
    /\ chan[Unwrap(stream[c])] # <<>>
    /\ LET first == Head(chan[Unwrap(stream[c])]) IN
          /\ OnItem(c, first.item)
          /\ taken' = [taken EXCEPT ![c] = Append(@, first)]
    /\ chan' = [chan EXCEPT ![Unwrap(stream[c])] = Tail(@)]
    /\ UNCHANGED <<stream, tx, produced>>

\* commands.rs 145: stream.next() returns None once the stream is empty and
\* every sending end is gone
EndOfStream(c) ==
    /\ IsSome(stream[c])
    /\ chan[Unwrap(stream[c])] = <<>>
    /\ ~HasWriter(Unwrap(stream[c]))
    /\ StreamEnd(c)

-----------------------------------------------------------------------------
(* The remote fragment stream on its own: the server's events travel as    *)
(* text that the network cuts into chunks anywhere (openai.rs 98-136).     *)

\* text of the response already delivered
Delivered == Len(RenderAll(sse)) - Len(wire)

\* offsets in the response text at which one event ends and the next begins
EventBoundaries == {Len(RenderAll(SubSeq(sse, 1, n))) : n \in 1..(Len(sse) - 1)}

\* bytes_stream() delivers the next k atoms as one chunk
RecvChunk(k) ==
    /\ rstate = "open"
    /\ k \in 1..Len(wire)
    /\ LET chunk == SubSeq(wire, 1, k)
           y == StreamItem(Ok(chunk))
           items2 == IF IsSome(y) THEN Append(items, Unwrap(y)) ELSE items
       IN /\ lastChunk' = Some(chunk)
          /\ lastYield' = y
          /\ items' = items2
          /\ doneAt' = IF doneAt = None /\ HitsDone(chunk) THEN Some(Len(items2))
                       ELSE doneAt
          /\ crossed' = (crossed \/ \E b \in EventBoundaries :
                                       Delivered < b /\ b < Delivered + k)
    /\ wire' = SubSeq(wire, k+1, Len(wire))
    /\ UNCHANGED <<sse, rstate>>
    /\ UNCHANGED <<ovars, lvars, svars>>

\* bytes_stream() delivers a read error
ReadError ==
    /\ rstate = "open"
    /\ LET y == StreamItem(Err(<<"connection reset">>)) IN
          /\ lastYield' = y
          /\ items' = Append(items, Unwrap(y))
    /\ lastChunk' = None
    /\ rstate' = "errored"
    /\ UNCHANGED <<sse, wire, doneAt, crossed>>
    /\ UNCHANGED <<ovars, lvars, svars>>

\* the response body is exhausted: the stream ends
EndOfBody ==
    /\ rstate = "open"
    /\ wire = <<>>
    /\ rstate' = "ended"
    /\ UNCHANGED <<sse, wire, items, lastChunk, lastYield, doneAt, crossed>>
    /\ UNCHANGED <<ovars, lvars, svars>>

-----------------------------------------------------------------------------
(* llm/local.rs: one local call.  stream_completion makes the channel and  *)
(* spawns the worker, which runs run_inference and then, on an error,      *)
(* sends it; the consumer holds the ReceiverStream.                        *)

AllHandles == {"backend", "model", "ctx", "batch", "sampler"}

\* the stages of run_inference ahead of the loop that can fail, with the
\* error each one returns
PrologueErrors ==
    {<<"Failed to init backend: ", "e">>, <<"Failed to load model: ", "e">>,
     <<"Failed to create context: ", "e">>, <<"Failed to tokenize: ", "e">>,
     <<"Failed to add token to batch: ", "e">>, <<"Failed to decode prompt: ", "e">>}

\* model files and prompts a call may run on
Worlds == {"w1", "w2"}

\* the token with the highest logit once the tokens of `prefix` were
\* accepted: a function of the model, the prompt and the tokens before it
TopToken(w, prefix) ==
    IF w = "w1"
    THEN CASE Len(prefix) = 0 -> "tX"
           [] Len(prefix) = 1 -> "tY"
           [] OTHER           -> "tTurn"
    ELSE CASE Len(prefix) = 0 -> "tBadUtf8"
           [] Len(prefix) = 1 -> "tCont"
           [] Len(prefix) = 2 -> "tX"
           [] OTHER           -> "tEog"

\* tokens sampler.sample may return: greedy takes the top token, the
\* temperature and dist chain draws from the whole distribution
Sampled(kind, w, prefix) ==
    IF kind = "greedy" THEN {TopToken(w, prefix)} ELSE Tokens

\* mutant: the stochastic chain built whatever the temperature
ChooseSamplerAlwaysDist(temp) == "dist"

\* local.rs 135-142: greedy below 0.01, else temperature scaling and dist
ChooseSampler(temp) == IF temp < 1 THEN "greedy" ELSE "dist"

\* mutant: the range takes one iteration more
LoopRangeInclusive(n) == n <= MaxTokens

\* local.rs 148: `for _ in 0..max_tokens` has an iteration left after n
LoopRange(n) == n < MaxTokens

START_USER  == "<start_of_turn>user\n"
START_MODEL == "<start_of_turn>model\n"
END_TURN    == "<end_of_turn>\n"

\* mutant: an assistant message rendered as a user turn
TurnAssistantAsUser(m) ==
    CASE m.role = "system"    -> <<START_USER, "System instruction: ">> \o m.content
                                    \o <<END_TURN>>
      [] m.role = "user"      -> <<START_USER>> \o m.content \o <<END_TURN>>
      [] m.role = "assistant" -> <<START_USER>> \o m.content \o <<END_TURN>>
      [] OTHER                -> <<>>

\* local.rs 41-60: what one message adds to the prompt
Turn(m) ==
    CASE m.role = "system"    -> <<START_USER, "System instruction: ">> \o m.content
                                    \o <<END_TURN>>
      [] m.role = "user"      -> <<START_USER>> \o m.content \o <<END_TURN>>
      [] m.role = "assistant" -> <<START_MODEL>> \o m.content \o <<END_TURN>>
      [] OTHER                -> <<>>

\* local.rs 35-65
format_chat_prompt(ms) ==
    Concat([i \in 1..Len(ms) |-> Turn(ms[i])]) \o <<START_MODEL>>

\* errors of the stages ahead of the prompt's formatting
EarlyErrors ==
    {<<"Failed to init backend: ", "e">>, <<"Failed to load model: ", "e">>,
     <<"Failed to create context: ", "e">>}

\* the token count of the prompt: at most n_batch = 512, above it but within
\* the 2048 slots of the batch and of n_ctx, or above 2048
PromptSizes == {"fits", "over_n_batch", "over_n_ctx"}

\* errors of the stages ahead of the prompt's batch
SetupErrors ==
    {<<"Failed to init backend: ", "e">>, <<"Failed to load model: ", "e">>,
     <<"Failed to create context: ", "e">>, <<"Failed to tokenize: ", "e">>}

\* what the prologue of run_inference can come to for a prompt of that size:
\* batch.add fails once the 2048 slots of LlamaBatch::new(2048, 1) are used;
\* ctx.decode of more than n_batch tokens does not succeed
PrologueOutcomes(size) ==
    CASE size = "fits" ->
           {Ok(<<>>)} \cup {Err(e) : e \in PrologueErrors}
      [] size = "over_n_batch" ->
           {Err(e) : e \in SetupErrors \cup {<<"Failed to decode prompt: ", "e">>}}
      [] size = "over_n_ctx" ->
           {Err(e) : e \in SetupErrors \cup {<<"Failed to add token to batch: ", "e">>}}

\* mutant: the handles are kept when run_inference returns an error
ReturnFromInferenceLeaks(res) ==
    /\ IF res.ok
       THEN /\ wpc' = "exited"
            /\ handles' = {}
            /\ txAlive' = FALSE
            /\ UNCHANGED werr
       ELSE /\ wpc' = "report"
            /\ werr' = Some(res.val)
            /\ UNCHANGED <<handles, txAlive>>

\* mutant: the worker's Sender outlives a successful run_inference
ReturnFromInferenceKeepsTx(res) ==
    /\ handles' = {}
    /\ IF res.ok
       THEN /\ wpc' = "exited"
            /\ UNCHANGED <<werr, txAlive>>
       ELSE /\ wpc' = "report"
            /\ werr' = Some(res.val)
            /\ UNCHANGED txAlive

\* run_inference returns: its locals are dropped
ReturnFromInference(res) ==
    /\ handles' = {}
    /\ IF res.ok
       THEN /\ wpc' = "exited"
            /\ txAlive' = FALSE
            /\ UNCHANGED werr
       ELSE /\ wpc' = "report"
            /\ werr' = Some(res.val)
            /\ UNCHANGED txAlive

\* local.rs 95-146: backend, model, context, prompt, batch, prompt decode,
\* sampler; `outcome` is Ok or the error of the stage that failed
Prime(outcome) ==
    /\ wpc = "start"
    /\ outcome \in PrologueOutcomes(promptSize)
    /\ IF outcome.ok
       THEN /\ handles' = AllHandles
            /\ sampler' = ChooseSampler(temperature)
            /\ wpc' = "sample"
            /\ UNCHANGED <<werr, txAlive>>
       ELSE /\ ReturnFromInference(outcome)
            /\ UNCHANGED sampler
    /\ prompt' = IF outcome.ok \/ outcome.val \notin EarlyErrors
                 THEN Some(format_chat_prompt(wmessages)) ELSE prompt
    /\ UNCHANGED <<nIter, tok, queue, rxAlive, rxDone, received, sampled, afterDrop>>
    /\ UNCHANGED <<lgiven, txLog, waited>>
    /\ UNCHANGED <<ovars, rvars, svars>>

\* local.rs 131: ctx.decode is handed the whole prompt as one batch; with
\* more tokens than n_batch the native llama_decode is called outside its
\* contract and may stop the process instead of returning an error
DecodeAborts ==
    /\ wpc = "start"
    /\ promptSize = "over_n_batch"
    /\ wpc' = "aborted"
    /\ txAlive' = FALSE
    /\ rxAlive' = FALSE
    /\ prompt' = Some(format_chat_prompt(wmessages))
    /\ UNCHANGED <<nIter, tok, werr, handles, queue, rxDone, received, sampled,
                   afterDrop>>
    /\ UNCHANGED <<lgiven, sampler, txLog, waited>>
    /\ UNCHANGED <<ovars, rvars, svars>>

\* local.rs 148: the range 0..max_tokens is exhausted; line 186 returns Ok
LoopEnd ==
    /\ wpc = "sample"
    /\ ~LoopRange(nIter)
    /\ ReturnFromInference(Ok(<<>>))
    /\ UNCHANGED <<nIter, tok, queue, rxAlive, rxDone, received, sampled, afterDrop>>
    /\ UNCHANGED <<lgiven, prompt, sampler, txLog, waited>>
    /\ UNCHANGED <<ovars, rvars, svars>>

\* mutant: the text of a token is sent also when it is empty
SampleSendsEmpty(t) ==
    /\ wpc = "sample"
    /\ LoopRange(nIter)
    /\ t \in Sampled(sampler, world, sampled)
    /\ nIter' = nIter + 1
    /\ tok' = t
    /\ sampled' = Append(sampled, t)
    /\ afterDrop' = IF rxAlive THEN afterDrop
                    ELSE [afterDrop EXCEPT !.samples = @ + 1]
    /\ IF is_eog_token(t) \/ HasStopTag(TokenStr(t))
       THEN ReturnFromInference(Ok(<<>>))
       ELSE /\ wpc' = "send"
            /\ UNCHANGED <<werr, handles, txAlive>>
    /\ UNCHANGED <<queue, rxAlive, rxDone, received>>
    /\ UNCHANGED <<lgiven, prompt, sampler, txLog, waited>>
    /\ UNCHANGED <<ovars, rvars, svars>>

\* local.rs 149-168: sample and accept a token, test the stop conditions,
\* decide whether there is text to send
Sample(t) ==
    /\ wpc = "sample"
    /\ LoopRange(nIter)
    /\ t \in Sampled(sampler, world, sampled)
    /\ nIter' = nIter + 1
    /\ tok' = t
    /\ sampled' = Append(sampled, t)
    /\ afterDrop' = IF rxAlive THEN afterDrop
                    ELSE [afterDrop EXCEPT !.samples = @ + 1]
    /\ IF is_eog_token(t) \/ HasStopTag(TokenStr(t))
       THEN ReturnFromInference(Ok(<<>>))
       ELSE /\ wpc' = IF TokenStr(t) # <<>> THEN "send" ELSE "feed"
            /\ UNCHANGED <<werr, handles, txAlive>>
    /\ UNCHANGED <<queue, rxAlive, rxDone, received>>
    /\ UNCHANGED <<lgiven, prompt, sampler, txLog, waited>>
    /\ UNCHANGED <<ovars, rvars, svars>>

\* mutant: a failed send is returned as an error
SendFailureIsError ==
    /\ wpc = "send"
    /\ IF ~rxAlive
       THEN /\ ReturnFromInference(Err(<<"channel closed">>))
            /\ UNCHANGED <<queue, txLog>>
       ELSE /\ Len(queue) < ChannelCap
            /\ queue' = Append(queue, Ok(TokenStr(tok)))
            /\ txLog' = Append(txLog, Ok(TokenStr(tok)))
            /\ wpc' = "feed"
            /\ UNCHANGED <<werr, handles, txAlive>>
    /\ UNCHANGED <<nIter, tok, rxAlive, rxDone, received, sampled, afterDrop>>
    /\ UNCHANGED <<lgiven, prompt, sampler, waited>>
    /\ UNCHANGED <<ovars, rvars, svars>>

\* mutant: a send into a full channel writes over the newest item
SendOverwrites ==
    /\ wpc = "send"
    /\ IF ~rxAlive
       THEN /\ ReturnFromInference(Ok(<<>>))
            /\ UNCHANGED <<queue, txLog>>
       ELSE /\ queue' = IF Len(queue) < ChannelCap
                        THEN Append(queue, Ok(TokenStr(tok)))
                        ELSE [queue EXCEPT ![Len(queue)] = Ok(TokenStr(tok))]
            /\ txLog' = Append(txLog, Ok(TokenStr(tok)))
            /\ wpc' = "feed"
            /\ UNCHANGED <<werr, handles, txAlive>>
    /\ UNCHANGED <<nIter, tok, rxAlive, rxDone, received, sampled, afterDrop>>
    /\ UNCHANGED <<lgiven, prompt, sampler, waited>>
    /\ UNCHANGED <<ovars, rvars, svars>>

\* local.rs 169-172: tx.blocking_send(Ok(token_str)); it waits while the
\* channel is full and fails once the Receiver is gone
Send ==
    /\ wpc = "send"
    /\ IF ~rxAlive
       THEN /\ ReturnFromInference(Ok(<<>>))
            /\ UNCHANGED <<queue, txLog>>
       ELSE /\ Len(queue) < ChannelCap
            /\ queue' = Append(queue, Ok(TokenStr(tok)))
            /\ txLog' = Append(txLog, Ok(TokenStr(tok)))
            /\ wpc' = "feed"
            /\ UNCHANGED <<werr, handles, txAlive>>
    /\ UNCHANGED <<nIter, tok, rxAlive, rxDone, received, sampled, afterDrop>>
    /\ UNCHANGED <<lgiven, prompt, sampler, waited>>
    /\ UNCHANGED <<ovars, rvars, svars>>

\* local.rs 175-183: the token goes into a fresh batch and the context
\* decodes it; `decoded` is the outcome of ctx.decode
Feed(decoded) ==
    /\ wpc = "feed"
    /\ afterDrop' = IF rxAlive THEN afterDrop
                    ELSE [afterDrop EXCEPT !.decodes = @ + 1]
    /\ IF decoded.ok
       THEN /\ wpc' = "sample"
            /\ UNCHANGED <<werr, handles, txAlive>>
       ELSE ReturnFromInference(Err(<<"Failed to decode: ">> \o decoded.val))
    /\ UNCHANGED <<nIter, tok, queue, rxAlive, rxDone, received, sampled>>
    /\ UNCHANGED <<lgiven, prompt, sampler, txLog, waited>>
    /\ UNCHANGED <<ovars, rvars, svars>>

\* mutant: the error of run_inference is not sent
ReportNothing ==
    /\ wpc = "report"
    /\ wpc' = "exited"
    /\ txAlive' = FALSE
    /\ UNCHANGED <<nIter, tok, werr, handles, rxAlive, rxDone, received, sampled,
                   afterDrop, queue, txLog>>
    /\ UNCHANGED <<lgiven, prompt, sampler, waited>>
    /\ UNCHANGED <<ovars, rvars, svars>>

\* local.rs 80-83: `let _ = tx.blocking_send(Err(e))`, then the closure
\* ends and its Senders are dropped
Report ==
    /\ wpc = "report"
    /\ IF ~rxAlive
       THEN UNCHANGED <<queue, txLog>>
       ELSE /\ Len(queue) < ChannelCap
            /\ queue' = Append(queue, Err(Unwrap(werr)))
            /\ txLog' = Append(txLog, Err(Unwrap(werr)))
    /\ wpc' = "exited"
    /\ txAlive' = FALSE
    /\ UNCHANGED <<nIter, tok, werr, handles, rxAlive, rxDone, received, sampled,
                   afterDrop>>
    /\ UNCHANGED <<lgiven, prompt, sampler, waited>>
    /\ UNCHANGED <<ovars, rvars, svars>>

\* a blocking_send is waiting for room in the channel
SenderWaits == wpc \in {"send", "report"} /\ rxAlive /\ Len(queue) = ChannelCap

\* mutant: the newest item handed out first
PullNewest ==
    /\ rxAlive
    /\ ~rxDone
    /\ queue # <<>>
    /\ received' = Append(received, queue[Len(queue)])
    /\ queue' = SubSeq(queue, 1, Len(queue) - 1)
    /\ waited' = (waited \/ SenderWaits)
    /\ UNCHANGED <<wpc, nIter, tok, werr, handles, txAlive, rxAlive, rxDone, sampled,
                   afterDrop>>
    /\ UNCHANGED <<lgiven, prompt, sampler, txLog>>
    /\ UNCHANGED <<ovars, rvars, svars>>

\* the consumer's stream.next() returns the oldest item
Pull ==
    /\ rxAlive
    /\ ~rxDone
    /\ queue # <<>>
    /\ received' = Append(received, Head(queue))
    /\ queue' = Tail(queue)
    /\ waited' = (waited \/ SenderWaits)
    /\ UNCHANGED <<wpc, nIter, tok, werr, handles, txAlive, rxAlive, rxDone, sampled,
                   afterDrop>>
    /\ UNCHANGED <<lgiven, prompt, sampler, txLog>>
    /\ UNCHANGED <<ovars, rvars, svars>>

\* stream.next() returns None: the channel is empty and every Sender gone
SeeEnd ==
    /\ rxAlive
    /\ ~rxDone
    /\ queue = <<>>
    /\ ~txAlive
    /\ rxDone' = TRUE
    /\ UNCHANGED <<wpc, nIter, tok, werr, handles, queue, txAlive, rxAlive, received,
                   sampled, afterDrop>>
    /\ UNCHANGED <<lgiven, prompt, sampler, txLog, waited>>
    /\ UNCHANGED <<ovars, rvars, svars>>

\* the consumer drops the stream: the Receiver closes the channel and the
\* items still queued are dropped with it
DropRx ==
    /\ rxAlive
    /\ rxAlive' = FALSE
    /\ queue' = <<>>
    /\ afterDrop' = [afterDrop EXCEPT !.inLoop = wpc \in {"sample", "send", "feed"}]
    /\ UNCHANGED <<wpc, nIter, tok, werr, handles, txAlive, rxDone, received, sampled>>
    /\ UNCHANGED <<lgiven, prompt, sampler, txLog, waited>>
    /\ UNCHANGED <<ovars, rvars, svars>>

-----------------------------------------------------------------------------
(* Specifications of the orchestrator *)

vars == <<ovars, rvars, lvars, svars>>

OrchInit ==
    /\ history = <<>>
    /\ pc = [c \in Calls |-> "idle"]
    /\ cfg = [c \in Calls |-> None]
    /\ provider = [c \in Calls |-> None]
    /\ msg = [c \in Calls |-> <<>>]
    /\ messages = [c \in Calls |-> <<>>]
    /\ acc = [c \in Calls |-> <<>>]
    /\ emitted = [c \in Calls |-> <<>>]
    /\ result = [c \in Calls |-> None]
    /\ requests = [c \in Calls |-> 0]
    /\ spawned = [c \in Calls |-> 0]
    /\ reqLog = [c \in Calls |-> None]
    /\ request = [c \in Calls |-> None]
    /\ histAtStart = [c \in Calls |-> <<>>]
    /\ histAtEnd = [c \in Calls |-> <<>>]
    /\ stream = [c \in Calls |-> None]
    /\ tx = [c \in Calls |-> None]
    /\ chan = [s \in Calls |-> <<>>]
    /\ produced = [c \in Calls |-> <<>>]
    /\ taken = [c \in Calls |-> <<>>]

\* the local call model at rest: no worker, no channel
LocalIdle ==
    /\ wpc = "exited"
    /\ nIter = 0
    /\ tok = ""
    /\ werr = None
    /\ handles = {}
    /\ queue = <<>>
    /\ txAlive = FALSE
    /\ rxAlive = FALSE
    /\ rxDone = FALSE
    /\ received = <<>>
    /\ sampled = <<>>
    /\ afterDrop = [inLoop |-> FALSE, samples |-> 0, decodes |-> 0]
    /\ temperature = 90
    /\ world = "w1"
    /\ promptSize = "fits"
    /\ wmessages = <<>>
    /\ prompt = None
    /\ sampler = "none"
    /\ txLog = <<>>
    /\ waited = FALSE

\* the remote stream model at rest
RemoteIdle ==
    /\ sse = <<>>
    /\ wire = <<>>
    /\ rstate = "ended"
    /\ items = <<>>
    /\ lastChunk = None
    /\ lastYield = None
    /\ doneAt = None
    /\ crossed = FALSE

\* what Config::load() may return: an I/O or parse error, or a Config
Loads(cfgs) == {Err(<<"io error">>)} \cup {Ok(cf) : cf \in cfgs}

\* outcomes of send().await and of response.text().await
SendOutcomes == {Ok(<<>>), Err(<<"error sending request">>)}
TextOutcomes == {Ok(b) : b \in Bodies} \cup {Err(<<"error decoding response body">>)}

\* one step of call c in environment env: the configurations Config::load
\* may find, the user's texts, the chunks a remote body may arrive in and
\* the errors a local worker may meet
CallStep(c, env) ==
    \/ \E m \in env.texts, loaded \in Loads(env.cfgs) : Begin(c, m, loaded)
    \/ PushUser(c)
    \/ PrepareMessages(c)
    \/ \E sent \in SendOutcomes, status \in Statuses, text \in TextOutcomes :
          StreamCompletionRemote(c, sent, status, text)
    \/ StreamCompletionLocal(c)
    \/ NextRemote(c, env.chunks)
    \/ NextLocal(c, env.errors)
    \/ StreamEnd(c)
    \/ PushAssistant(c)
    \/ Finish(c)

\* configurations of the overlapping-calls specification: one per outcome
\* of build_provider for the OpenAI and BuiltIn kinds
CoreConfigs ==
    {cf \in Configs : /\ cf.temperature = 90
                      /\ cf.custom_api_url = None /\ cf.custom_api_key = None
                      /\ cf.custom_model = None
                      /\ \/ cf.llm_provider = "OpenAI" /\ cf.builtin_model_path = None
                         \/ cf.llm_provider = "BuiltIn" /\ cf.openai_api_key = None}

PairEnv == [cfgs   |-> CoreConfigs,
            texts  |-> UserTexts,
            chunks |-> {Render("a"), Render("b")},
            errors |-> {<<"Failed to decode: ", "e">>}]

OneEnv == [cfgs   |-> Configs,
           texts  |-> UserTexts,
           chunks |-> OrchChunks,
           errors |-> InferenceErrors]

\* overlapping send_message calls
Init == OrchInit /\ RemoteIdle /\ LocalIdle
Next == \E c \in Calls : CallStep(c, PairEnv)
Spec == Init /\ [][Next]_vars

\* one send_message call under every configuration
InitOne == OrchInit /\ RemoteIdle /\ LocalIdle
NextOne == CallStep(1, OneEnv)
SpecOne == InitOne /\ [][NextOne]_vars

\* overlapping send_message calls with their streams: every call has its
\* own producer, and items travel over the stream between the two
StreamStep(c, env) ==
    \/ \E m \in env.texts, loaded \in Loads(env.cfgs) : Begin(c, m, loaded)
    \/ PushUser(c)
    \/ PrepareMessages(c)
    \/ \E sent \in SendOutcomes, status \in Statuses, text \in TextOutcomes :
          StreamCompletionRemote(c, sent, status, text)
    \/ StreamCompletionLocal(c)
    \/ \E item \in ProducerItems("remote", env.chunks, env.errors)
                     \cup ProducerItems("local", env.chunks, env.errors) :
          Produce(c, item, env)
    \/ CloseTx(c)
    \/ Consume(c)
    \/ EndOfStream(c)
    \/ PushAssistant(c)
    \/ Finish(c)

\* the environment of the streams specification: one user text, one chunk
StreamEnv == [cfgs   |-> CoreConfigs,
              texts  |-> {<<"hello">>},
              chunks |-> {Render("a")},
              errors |-> {<<"Failed to decode: ", "e">>}]

InitStreams == OrchInit /\ RemoteIdle /\ LocalIdle
NextStreams == \E c \in Calls : StreamStep(c, StreamEnv)
SpecStreams == InitStreams /\ [][NextStreams]_vars

-----------------------------------------------------------------------------
(* Properties of send_message *)

IsTerminal(e) == e.name \in {"chat-done", "chat-error"}
Returned(c) == IsSome(result[c])
ReturnedErr(c) == Returned(c) /\ ~Unwrap(result[c]).ok

\* entries of history pushed by call c
PushedBy(c) == SelectSeq(history, LAMBDA h : h.by = c)

\* does text t contain text u as a contiguous run
ContainsText(t, u) ==
    \E i \in 0..(Len(t) - Len(u)) : SubSeq(t, i+1, i+Len(u)) = u

\* C1: every call that has returned emitted chat-token events followed by
\* exactly one terminal event, chat-done or chat-error, and nothing after it
C1_OneTerminalEvent ==
    \A c \in Calls :
       /\ \A i \in 1..(Len(emitted[c]) - 1) : emitted[c][i].name = "chat-token"
       /\ Returned(c) =>
             /\ emitted[c] # <<>>
             /\ IsTerminal(emitted[c][Len(emitted[c])])

\* C2 as stated: when a call returns Ok, history is the history at the
\* start of the call extended by the user message and the assistant message
C2_GrowsByExactlyTwo ==
    \A c \in Calls :
       pc[c] = "done" =>
          histAtEnd[c] = histAtStart[c]
              \o <<ChatMessage("user", msg[c], c),
                   ChatMessage("assistant",
                       Concat([i \in 1..Len(TokensOf(c)) |-> TokensOf(c)[i].payload]), c)>>

\* C2 amended: a call that returns Ok has itself pushed exactly two entries,
\* its user message and then one assistant message whose content is the
\* concatenation of the fragments it consumed, in order; the history at its
\* start is a prefix of the history at its end
C2_CallAppendsTwo ==
    \A c \in Calls :
       pc[c] = "done" =>
          /\ PushedBy(c) =
                <<ChatMessage("user", msg[c], c),
                  ChatMessage("assistant",
                      Concat([i \in 1..Len(TokensOf(c)) |-> TokensOf(c)[i].payload]), c)>>
          /\ Len(histAtEnd[c]) >= Len(histAtStart[c]) + 2
          /\ SubSeq(histAtEnd[c], 1, Len(histAtStart[c])) = histAtStart[c]

C2_Witness ==
    \E c \in Calls :
       /\ pc[c] = "done"
       /\ Len(TokensOf(c)) = 2
       /\ TokensOf(c)[1].payload # TokensOf(c)[2].payload
       /\ Len(histAtEnd[c]) > Len(histAtStart[c]) + 2

\* C3: a call that returned an error has emitted a chat-error event and has
\* pushed no assistant message
C3_ErrorEventAndNoAssistant ==
    \A c \in Calls :
       ReturnedErr(c) =>
          /\ \E i \in 1..Len(emitted[c]) : emitted[c][i].name = "chat-error"
          /\ \A i \in 1..Len(history) :
                history[i].by = c => history[i].role # "assistant"

\* the call's POST was answered with a non-success status
NonSuccess(c) == IsSome(reqLog[c]) /\ ~IsSuccess(Unwrap(reqLog[c]).status)

\* C7 as stated: a non-success status ends the call with one error that
\* carries the status code and the body text, no fragment, one request
C7_StatusAndBodyCarried ==
    \A c \in Calls :
       NonSuccess(c) =>
          /\ ReturnedErr(c)
          /\ Carries(Unwrap(result[c]).val, Unwrap(reqLog[c]).status)
          /\ IsSome(Unwrap(reqLog[c]).body) =>
                ContainsText(Unwrap(result[c]).val, Unwrap(Unwrap(reqLog[c]).body))
          /\ TokensOf(c) = <<>>
          /\ requests[c] = 1

\* C7 amended: on a non-success status the call returns one error, consumes
\* no fragment and sends no second request; the error carries the status
\* code and the body verbatim when the body was read, and is the read error
\* itself when reading the body failed
C7_StatusErrorOrReadError ==
    \A c \in Calls :
       NonSuccess(c) =>
          /\ ReturnedErr(c)
          /\ pc[c] = "failed"
          /\ TokensOf(c) = <<>>
          /\ requests[c] = 1
          /\ LET e == Unwrap(result[c]).val
                 r == Unwrap(reqLog[c])
             IN IF IsSome(r.body)
                THEN /\ Carries(e, r.status)
                     /\ ContainsText(e, Unwrap(r.body))
                     /\ e = <<"Failed to get completion: ", "OpenAI API error ",
                              r.status, ": ">> \o Unwrap(r.body)
                ELSE e = <<"Failed to get completion: ", "error decoding response body">>

C7_Witness ==
    \E c \in Calls :
       /\ NonSuccess(c)
       /\ Unwrap(reqLog[c]).status = "401 Unauthorized"
       /\ Unwrap(reqLog[c]).body = Some(<<"invalid key">>)
       /\ ReturnedErr(c)

\* the call's configuration names a local model file that does not exist
MissingModelFile(c) ==
    /\ IsSome(cfg[c])
    /\ Unwrap(cfg[c]).llm_provider = "BuiltIn"
    /\ IsSome(Unwrap(cfg[c]).builtin_model_path)
    /\ ~FileExists(Unwrap(Unwrap(cfg[c]).builtin_model_path))

\* C8: with a model path that names no file the call has failed with the
\* model-load error as soon as its configuration is loaded: no worker
\* spawned, no request sent, no event emitted, nothing pushed to history
C8_MissingModelFailsFirst ==
    \A c \in Calls :
       MissingModelFile(c) =>
          /\ pc[c] = "failed"
          /\ result[c] = Some(Err(<<"Failed to load local model: ", "Model file not found: ",
                                     Unwrap(Unwrap(cfg[c]).builtin_model_path)>>))
          /\ spawned[c] = 0
          /\ requests[c] = 0
          /\ emitted[c] = <<>>
          /\ PushedBy(c) = <<>>
          /\ histAtEnd[c] = histAtStart[c]

C8_Witness ==
    \E c \in Calls :
       /\ MissingModelFile(c)
       /\ pc[c] = "failed"
       /\ histAtStart[c] # <<>>

\* the settings the claim names, per provider kind
NamedSettings(cf) ==
    CASE cf.llm_provider = "OpenAI"    -> <<cf.openai_api_key>>
      [] cf.llm_provider = "LMStudio"  -> <<cf.custom_api_url, cf.custom_api_key>>
      [] cf.llm_provider = "Ollama"    -> <<cf.custom_api_url>>
      [] cf.llm_provider = "CustomAPI" -> <<cf.custom_api_url, cf.custom_api_key>>
      [] cf.llm_provider = "BuiltIn"   -> <<cf.builtin_model_path>>

\* the settings whose absence build_provider rejects
RequiredSetting(cf) ==
    CASE cf.llm_provider = "OpenAI"    -> Some(cf.openai_api_key)
      [] cf.llm_provider = "CustomAPI" -> Some(cf.custom_api_url)
      [] cf.llm_provider = "BuiltIn"   -> Some(cf.builtin_model_path)
      [] OTHER -> None

ConfigErrors == {ErrNoKey, ErrNoUrl, ErrNoPath}

\* the call was rejected with a configuration error before any request,
\* worker, event or history push
RejectedUpFront(c) ==
    /\ pc[c] = "failed"
    /\ ReturnedErr(c)
    /\ Unwrap(result[c]).val \in ConfigErrors
    /\ requests[c] = 0
    /\ spawned[c] = 0
    /\ emitted[c] = <<>>
    /\ PushedBy(c) = <<>>

\* C9 as stated: for every provider kind, a missing credential, endpoint
\* URL or model path rejects the call up front
C9_EveryKindRejects ==
    \A c \in Calls :
       IsSome(cfg[c]) =>
          ((\E i \in 1..Len(NamedSettings(Unwrap(cfg[c]))) :
                NamedSettings(Unwrap(cfg[c]))[i] = None)
           => RejectedUpFront(c))

\* C9 amended: the call is rejected up front exactly when the kind is OpenAI
\* and the API key is missing, CustomAPI and the URL is missing, or BuiltIn
\* and the model path is missing; LMStudio and Ollama (and CustomAPI without
\* a key) fall back to defaults and a provider is built
C9_RequiredSettingRejects ==
    \A c \in Calls :
       IsSome(cfg[c]) =>
          LET cf == Unwrap(cfg[c]) IN
          IF IsSome(RequiredSetting(cf)) /\ Unwrap(RequiredSetting(cf)) = None
          THEN RejectedUpFront(c)
          ELSE /\ ~RejectedUpFront(c)
               /\ cf.llm_provider # "BuiltIn" =>
                     /\ IsSome(provider[c])
                     /\ Unwrap(provider[c]).type = "remote"
                     /\ cf.llm_provider = "LMStudio" =>
                           /\ Unwrap(provider[c]).base_url =
                                 UnwrapOr(cf.custom_api_url, "http://localhost:1234/v1")
                           /\ Unwrap(provider[c]).api_key =
                                 UnwrapOr(cf.custom_api_key, "lm-studio")
                     /\ cf.llm_provider = "Ollama" =>
                           Unwrap(provider[c]).base_url =
                              UnwrapOr(cf.custom_api_url, "http://localhost:11434/v1")

C9_Witness ==
    \E c \in Calls :
       /\ IsSome(cfg[c])
       /\ Unwrap(cfg[c]).llm_provider = "CustomAPI"
       /\ Unwrap(cfg[c]).custom_api_url = None
       /\ RejectedUpFront(c)

-----------------------------------------------------------------------------
(* The remote stream under every response of up to MaxEvents events and   *)
(* every way of cutting it into chunks                                     *)

InitRemote ==
    /\ OrchInit
    /\ LocalIdle
    /\ sse \in EventSeqs(MaxEvents)
    /\ wire = RenderAll(sse)
    /\ rstate = "open"
    /\ items = <<>>
    /\ lastChunk = None
    /\ lastYield = None
    /\ doneAt = None
    /\ crossed = FALSE

NextRemoteStream ==
    \/ \E k \in 1..Len(wire) : RecvChunk(k)
    \/ ReadError
    \/ EndOfBody

SpecRemote == InitRemote /\ [][NextRemoteStream]_vars

-----------------------------------------------------------------------------
(* Properties of the remote fragment stream *)

\* the fragments among the items
OkTexts(its) ==
    LET oks == SelectSeq(its, LAMBDA it : it.ok) IN [i \in 1..Len(oks) |-> oks[i].val]

\* C4: once a `data: [DONE]` line has been read no further fragment is
\* produced, from that chunk's later lines or from any later chunk
C4_DoneEndsTheSequence ==
    IsSome(doneAt) => Len(OkTexts(items)) = Unwrap(doneAt)

RECURSIVE WholeEventFragments(_)
\* the fragments the stream yields when every event arrives as its own chunk
WholeEventFragments(evs) ==
    IF evs = <<>> THEN <<>>
    ELSE LET y == StreamItem(Ok(Render(Head(evs)))) IN
         (IF IsSome(y) THEN <<Unwrap(y).val>> ELSE <<>>) \o WholeEventFragments(Tail(evs))

\* C5: when no chunk mixed text of two events, however the events were cut
\* into chunks, the stream has yielded the fragments of the whole events
C5_SplitYieldsSameFragments ==
    (rstate = "ended" /\ ~crossed) => OkTexts(items) = WholeEventFragments(sse)

\* index of the first `data: [DONE]` line among ls, Len(ls)+1 when none
FirstDone(ls) ==
    IF \E i \in 1..Len(ls) : IsDoneLine(ls[i])
    THEN CHOOSE i \in 1..Len(ls) :
            IsDoneLine(ls[i]) /\ \A j \in 1..(i-1) : ~IsDoneLine(ls[j])
    ELSE Len(ls) + 1

\* what a chunk must lead to when only its well-formed content lines ahead
\* of the sentinel count and every other line is passed over
ExpectedYield(chunk) ==
    LET ls == Lines(chunk)
        live == SubSeq(ls, 1, FirstDone(ls) - 1)
        good == SelectSeq(live, LAMBDA l : IsSome(LinePart(l)))
    IN IF good = <<>> THEN None
       ELSE Some(Ok(Concat([i \in 1..Len(good) |-> Unwrap(LinePart(good[i]))])))

\* C6: a line without the `data: ` prefix and a `data: ` line that fails to
\* parse add no fragment and no error item and do not stop the scan: every
\* chunk leads to exactly the content of its well-formed lines, and the
\* stream ends only when the body is exhausted
C6_NoiseLinesPassedOver ==
    /\ IsSome(lastChunk) => lastYield = ExpectedYield(Unwrap(lastChunk))
    /\ rstate = "ended" => wire = <<>>
    /\ rstate # "errored" => \A i \in 1..Len(items) : items[i].ok

C6_Witness ==
    /\ lastChunk = Some(Render("bad") \o Render("a"))
    /\ lastYield = Some(Ok(<<"a">>))
    /\ items = <<Ok(<<"a">>)>>

-----------------------------------------------------------------------------
(* One local call under every token the sampler may return and every       *)
(* pace of the consumer                                                    *)

InitLocal ==
    /\ OrchInit
    /\ RemoteIdle
    /\ wpc = "start"
    /\ nIter = 0
    /\ tok = ""
    /\ werr = None
    /\ handles = {}
    /\ queue = <<>>
    /\ txAlive = TRUE
    /\ rxAlive = TRUE
    /\ rxDone = FALSE
    /\ received = <<>>
    /\ sampled = <<>>
    /\ afterDrop = [inLoop |-> FALSE, samples |-> 0, decodes |-> 0]
    /\ temperature \in Temperatures
    /\ world \in Worlds
    /\ promptSize \in PromptSizes
    /\ wmessages = <<Message("system", SystemPrompt), Message("user", <<"hello">>)>>
    /\ prompt = None
    /\ sampler = "none"
    /\ txLog = <<>>
    /\ waited = FALSE

NextLocalCall ==
    \/ \E outcome \in {Ok(<<>>)} \cup {Err(e) : e \in PrologueErrors} : Prime(outcome)
    \/ DecodeAborts
    \/ \E t \in Tokens : Sample(t)
    \/ LoopEnd
    \/ Send
    \/ \E decoded \in {Ok(<<>>), Err(<<"e">>)} : Feed(decoded)
    \/ Report
    \/ Pull
    \/ SeeEnd
    \/ DropRx

SpecLocal == InitLocal /\ [][NextLocalCall]_vars

-----------------------------------------------------------------------------
(* Properties of the local call *)

\* C10: once the consumer has dropped the stream while the generation loop
\* was running, the worker samples at most one further token and decodes at
\* most one further token before it stops
C10_StopsWithinOneStep ==
    afterDrop.inLoop =>
       /\ afterDrop.samples <= 1
       /\ afterDrop.decodes <= 1

\* is t a token that ends generation: the end-of-generation token, or one
\* whose piece holds a stop tag
EndsGeneration(t) ==
    \/ is_eog_token(t)
    \/ Carries(token_to_bytes(t), END_OF_TURN)
    \/ Carries(token_to_bytes(t), EOS_TAG)

RECURSIVE UpToStop(_)
\* the tokens of ts ahead of the first one that ends generation
UpToStop(ts) ==
    IF ts = <<>> \/ EndsGeneration(Head(ts)) THEN <<>>
    ELSE <<Head(ts)>> \o UpToStop(Tail(ts))

\* the bytes the model generated up to the stop condition
GeneratedBytes ==
    LET ts == UpToStop(sampled) IN Concat([i \in 1..Len(ts) |-> token_to_bytes(ts[i])])

\* the call ran to its end: no error, and the consumer read the stream out
CompletedCleanly == rxDone /\ rxAlive /\ werr = None

\* the non-empty texts the worker reads off the tokens ts, in order
TextsOf(ts) ==
    LET ne == SelectSeq(ts, LAMBDA t : TokenStr(t) # <<>>)
    IN [i \in 1..Len(ne) |-> TokenStr(ne[i])]

IsPrefix(a, b) == Len(a) <= Len(b) /\ SubSeq(b, 1, Len(a)) = a

\* C11: when a local call ends without error and without cancellation, the
\* fragments delivered, concatenated in order, are exactly the text the model
\* generated up to the stop condition, the stop token left out
C11_FragmentsAreTheGeneratedText ==
    (CompletedCleanly /\ ValidUtf8(GeneratedBytes)) =>
       Concat(OkTexts(received)) = DecodeUtf8(GeneratedBytes)

\* C12: a token that is end-of-generation or whose text holds <end_of_turn>
\* or <eos> ends the loop and is never sent: it is the last token sampled,
\* the worker has returned Ok, no fragment holds either tag, and the
\* fragments sent are texts of tokens sampled ahead of it
C12_StopTokenEndsAndIsNeverSent ==
    /\ \A i \in 1..Len(sampled) : EndsGeneration(sampled[i]) =>
          /\ i = Len(sampled)
          /\ wpc = "exited"
          /\ werr = None
    /\ \A i \in 1..Len(txLog) : txLog[i].ok =>
          /\ ~Carries(txLog[i].val, END_OF_TURN)
          /\ ~Carries(txLog[i].val, EOS_TAG)
    /\ IsPrefix(OkTexts(txLog), TextsOf(UpToStop(sampled)))
    /\ IsPrefix(OkTexts(received), OkTexts(txLog))

C12_Witness ==
    /\ sampled = <<"tX", "tEos">>
    /\ rxDone
    /\ received = <<Ok(<<"x">>)>>

\* C13: neither the tokens sampled in one call nor the fragments it sends
\* or delivers are ever more than max_tokens
C13_AtMostMaxTokens ==
    /\ nIter <= MaxTokens
    /\ Len(sampled) <= MaxTokens
    /\ Len(OkTexts(txLog)) <= MaxTokens
    /\ Len(OkTexts(received)) <= MaxTokens

C13_Witness ==
    /\ Len(sampled) = MaxTokens
    /\ Len(OkTexts(received)) = MaxTokens
    /\ wpc = "exited"
    /\ werr = None
    /\ rxDone

\* C14: the consumer takes the items in the order the worker sent them, none
\* lost and none twice, also when the worker had to wait on a full channel:
\* what was taken followed by what is queued is what was sent
C14_ChannelKeepsOrder ==
    /\ Len(queue) <= ChannelCap
    /\ rxAlive => received \o queue = txLog
    /\ ~rxAlive => IsPrefix(received, txLog)
    /\ (rxDone /\ rxAlive) => received = txLog

C14_Witness ==
    /\ waited
    /\ rxDone
    /\ rxAlive
    /\ Len(received) = MaxTokens
    /\ received = txLog

RECURSIVE GreedyRun(_, _)
\* the tokens a greedy call on world w accepts ahead of its stop condition
GreedyRun(w, prefix) ==
    IF Len(prefix) = MaxTokens \/ EndsGeneration(TopToken(w, prefix)) THEN prefix
    ELSE GreedyRun(w, Append(prefix, TopToken(w, prefix)))

\* C16: the sampler is fixed ahead of the loop by the temperature alone,
\* greedy below 0.01 and stochastic otherwise; below 0.01 the fragments of a
\* completed call are a function of the model and the prompt, so two such
\* calls on the same model and prompt deliver the same sequence
C16_SamplerFixedAndGreedyRepeats ==
    /\ sampler = "none" => nIter = 0
    /\ sampler # "none" => sampler = (IF temperature < 1 THEN "greedy" ELSE "dist")
    /\ (temperature < 1 /\ CompletedCleanly) =>
          OkTexts(received) = TextsOf(GreedyRun(world, <<>>))

C16_Witness ==
    /\ temperature = 0
    /\ world = "w1"
    /\ sampler = "greedy"
    /\ rxDone
    /\ received = <<Ok(<<"x">>), Ok(<<"y">>)>>

-----------------------------------------------------------------------------
(* Properties of the request, the history and the remote stream *)

\* the model identifier the configuration selects for a remote provider
ConfiguredModel(cf) ==
    CASE cf.llm_provider = "OpenAI" -> cf.openai_model
      [] cf.llm_provider = "Ollama" -> UnwrapOr(cf.custom_model, "llama3.2")
      [] OTHER                      -> UnwrapOr(cf.custom_model, "default")

\* C15: the body of a remote request lists the call's messages one for one,
\* in order, role and content unchanged, and carries the configured model
\* identifier, the configured temperature and stream = true
C15_RequestBodyMirrorsMessages ==
    \A c \in Calls :
       IsSome(request[c]) =>
          LET b == Unwrap(request[c]).body IN
          /\ Len(b.messages) = Len(messages[c])
          /\ \A i \in 1..Len(messages[c]) :
                /\ b.messages[i].role = messages[c][i].role
                /\ b.messages[i].content = messages[c][i].content
          /\ b.model = ConfiguredModel(Unwrap(cfg[c]))
          /\ b.temperature = Unwrap(cfg[c]).temperature
          /\ b.stream = TRUE

C15_Witness ==
    \E c \in Calls :
       /\ IsSome(request[c])
       /\ pc[c] = "streaming"
       /\ Unwrap(request[c]).body.messages =
             <<Message("system", SystemPrompt), Message("user", <<"hello">>)>>
       /\ Unwrap(request[c]).body.model = "m-1"
       /\ Unwrap(request[c]).body.temperature = 0

\* C17: the shared history only grows at its end, whatever the interleaving
\* of the calls: every step leaves the entries it found in place
C17_HistoryAppendOnly == [][IsPrefix(history, history')]_vars

C17_Witness ==
    /\ Len(history) = 4
    /\ history[1].by = 1 /\ history[1].role = "user"
    /\ history[2].by = 2 /\ history[2].role = "user"
    /\ history[3].by = 1 /\ history[3].role = "assistant"
    /\ history[4].by = 2 /\ history[4].role = "assistant"

\* the content of the first choice of a well-formed `data: ` line, read off
\* the text of the line
FirstChoice(line) ==
    IF /\ Len(line) >= 4
       /\ line[1] = DATA
       /\ line[2] = "{"
       /\ line[3] \in StrAtoms
       /\ IsSome(ParseChunk(Tail(line)))
    THEN Some(ContentOf(line[3]))
    ELSE None

\* the content-bearing lines of a chunk that the scan meets
ContentLines(chunk) ==
    LET ls == Lines(chunk) IN
    SelectSeq(SubSeq(ls, 1, FirstDone(ls) - 1), LAMBDA l : IsSome(FirstChoice(l)))

\* C18: a chunk with several content-bearing `data: ` lines adds exactly one
\* fragment to the stream, the first-choice contents of those lines
\* concatenated in order
C18_OneFragmentPerChunk ==
    [][(wire' # wire /\ IsSome(lastChunk')
           /\ Len(ContentLines(Unwrap(lastChunk'))) >= 2) =>
          LET cl == ContentLines(Unwrap(lastChunk')) IN
          items' = Append(items, Ok(Concat([i \in 1..Len(cl) |-> Unwrap(FirstChoice(cl[i]))])))
      ]_vars

C18_Witness ==
    /\ lastChunk = Some(Render("two") \o Render("a"))
    /\ lastYield = Some(Ok(<<"a", "a">>))
    /\ items = <<Ok(<<"a", "a">>)>>

\* C19: a chunk that yields no content adds no item, and no fragment of the
\* stream is the empty text
C19_NoEmptyFragment ==
    /\ \A i \in 1..Len(items) : items[i].ok => items[i].val # <<>>
    /\ (IsSome(lastChunk) /\ IsSome(lastYield) /\ Unwrap(lastYield).ok) =>
          Unwrap(lastYield).val # <<>>

\* C20: a read error of a remote stream reaches the call as one error, after
\* the fragments already delivered: the chat-token events and the text
\* accumulated from them stand, the chat-error event is the last event of the
\* call and the call has returned that error
C20_ReadErrorEndsTheCall ==
    \A c \in Calls :
       (/\ IsSome(provider[c])
        /\ Unwrap(provider[c]).type = "remote"
        /\ \E i \in 1..Len(emitted[c]) : emitted[c][i].name = "chat-error") =>
          LET n == Len(emitted[c])
              text == <<"Stream error: ", "Stream error: ", "connection reset">>
          IN /\ emitted[c][n] = Event("chat-error", text)
             /\ \A i \in 1..(n-1) : emitted[c][i].name = "chat-token"
             /\ acc[c] = Concat([i \in 1..(n-1) |-> emitted[c][i].payload])
             /\ pc[c] = "failed"
             /\ result[c] = Some(Err(text))

C20_Witness ==
    \E c \in Calls :
       /\ IsSome(provider[c])
       /\ Unwrap(provider[c]).type = "remote"
       /\ emitted[c] = <<Event("chat-token", <<"a">>),
                         Event("chat-error",
                               <<"Stream error: ", "Stream error: ", "connection reset">>)>>
       /\ acc[c] = <<"a">>
       /\ pc[c] = "failed"

-----------------------------------------------------------------------------
(* Further properties of the local call *)

\* the Err items among `its`
ErrItems(its) == SelectSeq(its, LAMBDA it : ~it.ok)

\* C21: a failure inside a local call puts exactly one Err item into the
\* stream, as its last item: a consumer that reads the stream out has taken
\* every fragment sent before the failure, then the error, then the end
C21_OneTerminalErr ==
    /\ Len(ErrItems(txLog)) <= 1
    /\ \A i \in 1..Len(txLog) : ~txLog[i].ok => i = Len(txLog)
    /\ (ErrItems(txLog) # <<>>) => (IsSome(werr) /\ txLog[Len(txLog)] = Err(Unwrap(werr)))
    /\ (IsSome(werr) /\ rxDone /\ rxAlive) =>
          /\ received = txLog
          /\ Len(received) >= 1
          /\ received[Len(received)] = Err(Unwrap(werr))
          /\ \A i \in 1..(Len(received) - 1) : received[i].ok
          /\ wpc = "exited"
          /\ ~txAlive

C21_Witness ==
    /\ rxDone
    /\ rxAlive
    /\ received = <<Ok(<<"x">>), Ok(<<"y">>), Err(<<"Failed to decode: ", "e">>)>>

C23_FailedSendEndsQuietly ==
    /\ [][(wpc = "send" /\ ~rxAlive /\ wpc' # wpc) =>
            /\ wpc' = "exited"
            /\ werr' = None
            /\ ~txAlive'
            /\ txLog' = txLog
            /\ queue' = queue
            /\ afterDrop' = afterDrop
            /\ handles' = {}]_vars
    /\ []((wpc = "exited" /\ werr = None) => ErrItems(txLog) = <<>>)

\* a non-empty token was sampled after the consumer had left during the loop,
\* its send failed and the worker is gone
C23_Witness ==
    /\ afterDrop.inLoop
    /\ afterDrop.samples = 1
    /\ afterDrop.decodes = 0
    /\ sampled # <<>>
    /\ sampled[Len(sampled)] = "tX"
    /\ nIter < MaxTokens
    /\ wpc = "exited"
    /\ werr = None
    /\ txLog = <<>>

\* a blocking_send by the generation loop is waiting on a full channel
LoopSendWaits == wpc = "send" /\ rxAlive /\ Len(queue) = ChannelCap

\* C24: the channel never holds more than its capacity; while it is full the
\* worker stays in its send until the consumer takes an item or goes away;
\* an item leaves the channel only by being taken, oldest first, or when the
\* consumer drops the stream
C24_BoundedAndBlocking ==
    /\ [](Len(queue) <= ChannelCap)
    /\ [][LoopSendWaits =>
            /\ wpc' = "send"
            /\ txLog' = txLog
            /\ \/ queue' = queue
               \/ queue' = Tail(queue) /\ received' = Append(received, Head(queue))
               \/ ~rxAlive']_vars
    /\ [][rxAlive' =>
            \/ queue' = queue
            \/ queue # <<>> /\ queue' = Tail(queue)
            \/ /\ Len(queue) < ChannelCap
               /\ Len(queue') = Len(queue) + 1
               /\ SubSeq(queue', 1, Len(queue)) = queue]_vars

C24_Witness ==
    /\ LoopSendWaits
    /\ queue = txLog
    /\ Len(sampled) = ChannelCap + 1

-----------------------------------------------------------------------------
(* Further properties of send_message *)

\* C25: the history changes only when a call appends its user message, no
\* request sent and no worker spawned for it yet, or appends its assistant
\* message once its stream has ended; a step in which a call consumes a
\* fragment leaves the history as it was
C25_HistoryChangesAtTwoPoints ==
    /\ [][history' # history =>
            \E c \in Calls :
               \/ /\ pc[c] = "built" /\ pc'[c] = "pushed"
                  /\ requests[c] = 0 /\ spawned[c] = 0
                  /\ history' = Append(history, ChatMessage("user", msg[c], c))
               \/ /\ pc[c] = "ended" /\ pc'[c] = "committed"
                  /\ history' = Append(history, ChatMessage("assistant", acc[c], c))]_vars
    /\ [][\A c \in Calls :
             (pc[c] = "streaming" /\ (emitted'[c] # emitted[c] \/ acc'[c] # acc[c])) =>
                history' = history]_vars

C25_Witness ==
    \E c \in Calls :
       /\ pc[c] = "streaming"
       /\ Len(TokensOf(c)) = MaxItems
       /\ acc[c] # <<>>
       /\ PushedBy(c) = <<ChatMessage("user", msg[c], c)>>

\* C26: the message list of a call is the system prompt followed by the
\* history as it stood when the call read it, after its own user message was
\* pushed: one message more than the history had, the history's entries in
\* order, the call's user message among them
C26_SystemPromptThenHistory ==
    /\ [](\A c \in Calls :
            pc[c] \in {"prepared", "streaming", "ended", "committed", "done"} =>
               LET ms == messages[c]
                   n  == Len(ms) - 1
               IN /\ n >= 1
                  /\ ms[1] = Message("system", SystemPrompt)
                  /\ n <= Len(history)
                  /\ \A i \in 1..n : ms[i+1] = Message(history[i].role, history[i].content)
                  /\ \E i \in 1..n : history[i] = ChatMessage("user", msg[c], c))
    /\ [][\A c \in Calls :
             messages'[c] # messages[c] => Len(messages'[c]) = 1 + Len(history)]_vars

C26_Witness ==
    \E c \in Calls :
       /\ pc[c] = "streaming"
       /\ Len(messages[c]) = 4
       /\ messages[c][2].role = "user"
       /\ messages[c][3].role = "assistant"
       /\ messages[c][4] = Message("user", msg[c])

-----------------------------------------------------------------------------
(* format_chat_prompt on its own, applied to every message list of up to   *)
(* MaxMessages messages                                                    *)

Roles == {"system", "user", "assistant"}
Contents == {<<"hi">>, <<"a", "b">>}

MessageLists ==
    UNION {[1..n -> [role : Roles, content : Contents]] : n \in 0..MaxMessages}

\* local.rs 114: let prompt = format_chat_prompt(messages)
FormatPrompt ==
    /\ prompt = None
    /\ prompt' = Some(format_chat_prompt(wmessages))
    /\ UNCHANGED <<wpc, nIter, tok, werr, handles, queue, txAlive, rxAlive, rxDone,
                   received, sampled, afterDrop, sampler, txLog, waited>>
    /\ UNCHANGED lgiven
    /\ UNCHANGED <<ovars, rvars, svars>>

InitPrompt ==
    /\ OrchInit
    /\ RemoteIdle
    /\ wpc = "start"
    /\ nIter = 0
    /\ tok = ""
    /\ werr = None
    /\ handles = {}
    /\ queue = <<>>
    /\ txAlive = TRUE
    /\ rxAlive = TRUE
    /\ rxDone = FALSE
    /\ received = <<>>
    /\ sampled = <<>>
    /\ afterDrop = [inLoop |-> FALSE, samples |-> 0, decodes |-> 0]
    /\ temperature = 90
    /\ world = "w1"
    /\ promptSize = "fits"
    /\ sampler = "none"
    /\ txLog = <<>>
    /\ waited = FALSE
    /\ wmessages \in MessageLists
    /\ prompt = None

NextPrompt == FormatPrompt

SpecPrompt == InitPrompt /\ [][NextPrompt]_vars

RECURSIVE TurnsOf(_)
\* the turns of a text: its runs of atoms up to and including each END_TURN;
\* atoms after the last END_TURN make a final, open turn
TurnsOf(t) ==
    IF t = <<>> THEN <<>>
    ELSE IF \E i \in 1..Len(t) : t[i] = END_TURN
         THEN LET i == CHOOSE k \in 1..Len(t) :
                          t[k] = END_TURN /\ \A j \in 1..(k-1) : t[j] # END_TURN
              IN <<SubSeq(t, 1, i)>> \o TurnsOf(SubSeq(t, i+1, Len(t)))
         ELSE <<t>>

\* the opening of a closed turn for a message of that role
Opening(role) ==
    CASE role = "system"    -> <<START_USER, "System instruction: ">>
      [] role = "user"      -> <<START_USER>>
      [] role = "assistant" -> <<START_MODEL>>

\* C27: the prompt holds one closed turn per message, in list order, a system
\* message as a user turn labeled as instruction, a user message as a user
\* turn, an assistant message as a model turn, each around the message's
\* content, and it ends with the open turn `<start_of_turn>model\n`
C27_OneTurnPerMessage ==
    IsSome(prompt) =>
       LET ts == TurnsOf(Unwrap(prompt)) IN
       /\ Len(ts) = Len(wmessages) + 1
       /\ ts[Len(ts)] = <<START_MODEL>>
       /\ \A i \in 1..Len(wmessages) :
             ts[i] = Opening(wmessages[i].role) \o wmessages[i].content \o <<END_TURN>>

C27_Witness ==
    /\ wmessages = <<Message("system", <<"hi">>), Message("user", <<"a", "b">>),
                     Message("assistant", <<"hi">>)>>
    /\ prompt = Some(<<START_USER, "System instruction: ", "hi", END_TURN,
                       START_USER, "a", "b", END_TURN,
                       START_MODEL, "hi", END_TURN,
                       START_MODEL>>)

-----------------------------------------------------------------------------
(* Resources, termination and empty texts of the local call *)

\* C28: the native handles exist only while the worker is between the end of
\* its prologue and its exit: none before the worker has made them, all five
\* in the loop, none once run_inference has returned or the process stopped,
\* whichever way the loop was left
C28_HandlesReleasedOnExit ==
    /\ wpc = "start" => handles = {}
    /\ wpc \in {"sample", "send", "feed"} => handles = AllHandles
    /\ wpc \in {"report", "exited", "aborted"} => handles = {}

\* the loop was left by cancellation
C28_Witness ==
    /\ wpc = "exited"
    /\ handles = {}
    /\ afterDrop.inLoop
    /\ werr = None
    /\ Len(sampled) = 2
    /\ HasStopTag(TokenStr(sampled[2])) = FALSE
    /\ ~is_eog_token(sampled[2])

\* the worker keeps running, and the consumer keeps pulling while it holds
\* the stream (it may drop the stream at any time)
LocalFairness ==
    /\ WF_vars(\E outcome \in {Ok(<<>>)} \cup {Err(e) : e \in PrologueErrors} : Prime(outcome))
    /\ WF_vars(DecodeAborts)
    /\ WF_vars(\E t \in Tokens : Sample(t))
    /\ WF_vars(LoopEnd)
    /\ WF_vars(Send)
    /\ WF_vars(\E decoded \in {Ok(<<>>), Err(<<"e">>)} : Feed(decoded))
    /\ WF_vars(Report)
    /\ WF_vars(Pull)
    /\ WF_vars(SeeEnd)

SpecLocalFair == InitLocal /\ [][NextLocalCall]_vars /\ LocalFairness

\* C29: the worker comes to its end within max_tokens iterations, its
\* Senders are then gone, and a consumer that went on pulling has seen the
\* end of the stream behind the last item sent (or has dropped the stream)
C29_LocalStreamEnds ==
    /\ <>(wpc \in {"exited", "aborted"})
    /\ <>(rxDone \/ ~rxAlive)
    /\ [](nIter <= MaxTokens)
    /\ [](wpc = "exited" => ~txAlive)
    /\ []((rxDone /\ rxAlive) => (wpc = "exited" /\ queue = <<>> /\ received = txLog))

C29_Witness ==
    /\ rxDone
    /\ rxAlive
    /\ waited
    /\ wpc = "exited"
    /\ ~txAlive
    /\ nIter = MaxTokens
    /\ sampled[MaxTokens] = "tY"
    /\ received = txLog

\* the worker reads no text off token t: its piece is empty or not decodable
EmptyText(t) == ~token_to_str(t).ok \/ token_to_str(t).val = <<>>

\* C30: no item of a local stream is an empty text; a token whose text is
\* empty, also because its decoding failed, is counted as an iteration and
\* goes on to the batch and the decode without a send
C30_EmptyTextNotSent ==
    /\ [](\A i \in 1..Len(txLog) : txLog[i].ok => txLog[i].val # <<>>)
    /\ [](\A i \in 1..Len(received) : received[i].ok => received[i].val # <<>>)
    /\ [][(Len(sampled') = Len(sampled) + 1
           /\ ~EndsGeneration(sampled'[Len(sampled')])
           /\ EmptyText(sampled'[Len(sampled')])) =>
            /\ nIter' = nIter + 1
            /\ wpc' = "feed"
            /\ txLog' = txLog
            /\ queue' = queue]_vars

C30_Witness ==
    /\ sampled = <<"tEmpty", "tBadUtf8", "tX">>
    /\ nIter = MaxTokens
    /\ wpc = "exited"
    /\ werr = None
    /\ rxDone
    /\ received = <<Ok(<<"x">>)>>

-----------------------------------------------------------------------------
(* Properties of overlapping calls and their streams *)

\* the items of a sequence of stream entries, without the producer's mark
ItemsIn(entries) == [i \in 1..Len(entries) |-> entries[i].item]

\* the payloads of the chat-token events call c has emitted, in order
FragmentsOf(c) == [i \in 1..Len(TokensOf(c)) |-> TokensOf(c)[i].payload]

\* the assistant messages call c has pushed
AssistantOf(c) == SelectSeq(history, LAMBDA h : h.by = c /\ h.role = "assistant")

\* C31: overlapping send_message calls never share a stream: two calls hold
\* different streams, a stream carries only items generated by the producer
\* of the call that holds it, every item handed to a call was generated for
\* that call (the items taken are a prefix of what its own producer
\* generated), and the chat-token events, the accumulated response and the
\* assistant message of a call consist of exactly the fragments it took
C31_CallsShareNoFragment ==
    \A c \in Calls :
       /\ \A d \in Calls \ {c} : IsSome(stream[c]) => stream[d] # stream[c]
       /\ IsSome(stream[c]) =>
             \A i \in 1..Len(chan[Unwrap(stream[c])]) : chan[Unwrap(stream[c])][i].by = c
       /\ \A i \in 1..Len(taken[c]) : taken[c][i].by = c
       /\ IsPrefix(ItemsIn(taken[c]), produced[c])
       /\ FragmentsOf(c) = OkTexts(ItemsIn(taken[c]))
       /\ acc[c] = Concat(OkTexts(ItemsIn(taken[c])))
       /\ \A i \in 1..Len(AssistantOf(c)) :
             AssistantOf(c)[i].content = Concat(OkTexts(produced[c]))

\* call 2 pushed its user message before call 1 pushed its assistant
\* message; call 1 has ended with fragments of its own, call 2 has taken a
\* different fragment from another kind of provider and has more in flight
C31_Witness ==
    /\ pc[1] = "done" /\ pc[2] = "streaming"
    /\ Len(history) = Cardinality(Calls) + 1
    /\ history[Len(history) - 1].by = 2
    /\ history[Len(history)] = ChatMessage("assistant", acc[1], 1)
    /\ Unwrap(provider[1]).type # Unwrap(provider[2]).type
    /\ acc[1] # <<>> /\ acc[2] # <<>> /\ acc[1] # acc[2]
    /\ taken[2] # <<>>
    /\ chan[Unwrap(stream[2])] # <<>>

====
